---- MODULE Spec2Model ----
(***************************************************************************)
(* ChatInputHandler (services/chat-input-handler): the raw-keystroke line  *)
(* editor with history recall used by the chat command.                    *)
(*                                                                         *)
(* Strings and input chunks are sequences of UTF-16 code units.  Every     *)
(* method of the class is an operator from a handler record to a handler   *)
(* record; an action applies the whole handler to the variables.           *)
(* Terminal output (process.stdout.write and the readline calls) is not    *)
(* part of the state: the field output of a handler record lists the       *)
(* terminal calls made since the record was taken from the variables.      *)
(***************************************************************************)
EXTENDS Integers, Sequences, FiniteSets, TLC

VARIABLES
    history,            \* this.history
    caller,             \* the array last given to the constructor or updateHistory
    aliased,            \* this.history is that very array, not a copy of it
    historyIndex,       \* this.historyIndex
    inputBuffer,        \* this.inputBuffer
    cursorPosition,     \* this.cursorPosition
    savedCurrentInput,  \* this.savedCurrentInput
    isRawMode,          \* this.isRawMode
    isTTY,              \* process.stdin.isTTY
    setRawModeCalls,    \* number of calls of process.stdin.setRawMode
    listeners,          \* number of dataHandler listeners on process.stdin
    exitHandlers,       \* number of exitHandler listeners per process event
    exited,             \* the process has ended
    exitCode,           \* the codes process.exit was called with ({} or one code)
    resolved,           \* value the most recent promptForInput resolved with
    submitted,          \* history variable: effect of that resolution on history
    draft,              \* history variable: buffer when browsing was entered
    typed,              \* history variable: characters typed since the prompt
    calls,              \* history variable: promptForInput calls made so far
    decoderInput,       \* chunk last given to parseAnsiSequence on its own
    decoderOutput       \* what parseAnsiSequence returned for it

vars == <<history, caller, aliased, historyIndex, inputBuffer, cursorPosition,
          savedCurrentInput, isRawMode, isTTY, setRawModeCalls,
          listeners, exitHandlers, exited, exitCode, resolved, submitted, draft, typed, calls,
          decoderInput, decoderOutput>>

----------------------------------------------------------------------------
(* Bounds of the exploration. *)

\* a printable character is typed only while the buffer is shorter than this
MaxLen == 2

\* promptForInput is called at most this many times in an editing run
MaxCalls == 1

\* promptForInput is called at most this many times in a submission run
MaxSubmissions == 2

----------------------------------------------------------------------------
(* JavaScript string and array primitives used by the class. *)

Min(a, b) == IF a < b THEN a ELSE b

Max(a, b) == IF a > b THEN a ELSE b

\* String.prototype.slice(from, to) for 0 <= from, 0 <= to
Slice(str, from, to) ==
    LET t == Min(to, Len(str))
    IN  IF from >= t THEN <<>> ELSE SubSeq(str, from + 1, t)

\* String.prototype.slice(from) for 0 <= from
SliceFrom(str, from) == Slice(str, from, Len(str))

\* code units String.prototype.trim removes (WhiteSpace and LineTerminator)
WhiteSpace ==
    {9, 10, 11, 12, 13, 32, 160, 5760, 8232, 8233, 8239, 8287, 12288, 65279}
        \cup (8192..8202)

RECURSIVE TrimStart(_)
TrimStart(str) ==
    IF str # <<>> /\ Head(str) \in WhiteSpace THEN TrimStart(Tail(str)) ELSE str

RECURSIVE TrimEnd(_)
TrimEnd(str) ==
    IF str # <<>> /\ str[Len(str)] \in WhiteSpace
    THEN TrimEnd(SubSeq(str, 1, Len(str) - 1))
    ELSE str

\* String.prototype.trim
Trim(str) == TrimEnd(TrimStart(str))

\* Array.prototype.includes
Includes(arr, x) == \E i \in 1..Len(arr) : arr[i] = x

\* Array.prototype.unshift
Unshift(arr, x) == <<x>> \o arr

\* the value of `resolved` while no call has resolved yet
NoLine == <<-1>>

\* Buffer.prototype.toString(): UTF-8 decoding of a chunk into code units
\* (one- and two-byte forms; any other byte decodes to U+FFFD)
RECURSIVE toString(_)
toString(data) ==
    IF data = <<>> THEN <<>>
    ELSE IF Head(data) < 128 THEN <<Head(data)>> \o toString(Tail(data))
    ELSE IF /\ Head(data) \in 194..223
            /\ Len(data) >= 2
            /\ data[2] \in 128..191
         THEN <<(Head(data) - 192) * 64 + (data[2] - 128)>>
                  \o toString(Tail(Tail(data)))
    ELSE <<65533>> \o toString(Tail(data))

----------------------------------------------------------------------------
(* Program constants. *)

\* "Keep history size manageable": this.history.length > 100 / slice(0, 100)
HistoryCap == 100

----------------------------------------------------------------------------
(* The methods of ChatInputHandler, on a handler record s with the fields  *)
(* history, historyIndex, inputBuffer, cursorPosition, savedCurrentInput,  *)
(* the caller's array (caller, aliased),                                   *)
(* isRawMode and the process state isTTY, setRawModeCalls, listeners,       *)
(* exitHandlers, exited,                                                   *)
(* exitCode, resolved.                                                     *)

\* the calls a method makes on process.stdout
clearLine == [op |-> "clearLine", x |-> 0, text |-> <<>>]

cursorTo(x) == [op |-> "cursorTo", x |-> x, text |-> <<>>]

write(text) == [op |-> "write", x |-> 0, text |-> text]

\* "You: " (chalk.green adds colour codes that take no column)
Prompt == <<89, 111, 117, 58, 32>>

promptLength == 5

\* variant: the cursor is put at the buffer position, without the prompt
renderInputLineNoOffset(s) ==
    [s EXCEPT !.output = @ \o << clearLine, cursorTo(0),
                                 write(Prompt \o s.inputBuffer),
                                 cursorTo(s.cursorPosition) >>]

renderInputLine(s) ==
    [s EXCEPT !.output = @ \o << clearLine, cursorTo(0),
                                 write(Prompt \o s.inputBuffer),
                                 cursorTo(promptLength + s.cursorPosition) >>]

\* variant: raw mode is asked for on any input stream
enableRawModeAnyStream(s) ==
    IF ~s.isRawMode
    THEN [s EXCEPT !.isRawMode = TRUE, !.setRawModeCalls = @ + 1]
    ELSE s

enableRawMode(s) ==
    IF s.isTTY /\ ~s.isRawMode
    THEN [s EXCEPT !.isRawMode = TRUE, !.setRawModeCalls = @ + 1]
    ELSE s

\* variant: the terminal is reset whether or not raw mode is on
disableRawModeAlways(s) ==
    IF s.isTTY
    THEN [s EXCEPT !.isRawMode = FALSE, !.setRawModeCalls = @ + 1]
    ELSE s

disableRawMode(s) ==
    IF s.isTTY /\ s.isRawMode
    THEN [s EXCEPT !.isRawMode = FALSE, !.setRawModeCalls = @ + 1]
    ELSE s

\* variant: only the letter forms of Home and End are recognized
parseAnsiSequenceLettersOnly(data) ==
    LET input == toString(data)
    IN  IF input = <<27, 91, 65>> THEN "up"
        ELSE IF input = <<27, 91, 66>> THEN "down"
        ELSE IF input = <<27, 91, 67>> THEN "right"
        ELSE IF input = <<27, 91, 68>> THEN "left"
        ELSE IF input = <<27, 91, 72>> THEN "home"
        ELSE IF input = <<27, 91, 70>> THEN "end"
        ELSE IF input = <<27, 91, 51, 126>> THEN "delete"
        ELSE "null"

parseAnsiSequence(data) ==
    LET input == toString(data)
    IN  IF input = <<27, 91, 65>> THEN "up"
        ELSE IF input = <<27, 91, 66>> THEN "down"
        ELSE IF input = <<27, 91, 67>> THEN "right"
        ELSE IF input = <<27, 91, 68>> THEN "left"
        ELSE IF input = <<27, 91, 72>> \/ input = <<27, 91, 49, 126>> THEN "home"
        ELSE IF input = <<27, 91, 70>> \/ input = <<27, 91, 52, 126>> THEN "end"
        ELSE IF input = <<27, 91, 51, 126>> THEN "delete"
        ELSE "null"

\* variant: leaving browsing forgets the index but keeps the saved draft
resetHistoryNavigationKeepsDraft(s) ==
    IF s.historyIndex # -1 THEN [s EXCEPT !.historyIndex = -1] ELSE s

resetHistoryNavigation(s) ==
    IF s.historyIndex # -1
    THEN [s EXCEPT !.historyIndex = -1, !.savedCurrentInput = <<>>]
    ELSE s

\* variant: the draft comes back trimmed
restoreCurrentInputTrimmed(s) ==
    [s EXCEPT !.historyIndex = -1,
              !.inputBuffer = Trim(s.savedCurrentInput),
              !.cursorPosition = Len(Trim(s.savedCurrentInput)),
              !.savedCurrentInput = <<>>]

restoreCurrentInput(s) ==
    renderInputLine(
        [s EXCEPT !.historyIndex = -1,
                  !.inputBuffer = s.savedCurrentInput,
                  !.cursorPosition = Len(s.savedCurrentInput),
                  !.savedCurrentInput = <<>>])

\* variant: leaving browsing downwards keeps what the buffer shows
clearInputKeepsBuffer(s) ==
    [s EXCEPT !.historyIndex = -1, !.savedCurrentInput = <<>>]

clearInput(s) ==
    renderInputLine(
        [s EXCEPT !.historyIndex = -1,
                  !.inputBuffer = <<>>,
                  !.cursorPosition = 0,
                  !.savedCurrentInput = <<>>])

\* "Load history entry": history[historyIndex] into the buffer, cursor at end
loadHistoryEntry(s) ==
    [s EXCEPT !.inputBuffer = s.history[s.historyIndex + 1],
              !.cursorPosition = Len(s.history[s.historyIndex + 1])]

\* variant: the draft is saved after the history entry has been loaded
navigateUpSavesLate(s) ==
    IF s.historyIndex = -1
    THEN LET l == loadHistoryEntry([s EXCEPT !.historyIndex = 0])
         IN  [l EXCEPT !.savedCurrentInput = l.inputBuffer]
    ELSE IF s.historyIndex < Len(s.history) - 1
    THEN loadHistoryEntry([s EXCEPT !.historyIndex = @ + 1])
    ELSE s

navigateUp(s) ==
    IF s.historyIndex = -1
    THEN renderInputLine(
             loadHistoryEntry([s EXCEPT !.savedCurrentInput = s.inputBuffer,
                                        !.historyIndex = 0]))
    ELSE IF s.historyIndex < Len(s.history) - 1
    THEN renderInputLine(loadHistoryEntry([s EXCEPT !.historyIndex = @ + 1]))
    ELSE s

\* variant: down from an older entry jumps straight to the most recent one
navigateDownJumps(s) ==
    IF s.historyIndex = -1 THEN s
    ELSE IF s.historyIndex > 0
    THEN loadHistoryEntry([s EXCEPT !.historyIndex = 0])
    ELSE IF Trim(s.savedCurrentInput) = <<>>
    THEN clearInput(s)
    ELSE restoreCurrentInput(s)

navigateDown(s) ==
    IF s.historyIndex = -1 THEN s
    ELSE IF s.historyIndex > 0
    THEN renderInputLine(loadHistoryEntry([s EXCEPT !.historyIndex = @ - 1]))
    ELSE IF Trim(s.savedCurrentInput) = <<>>
    THEN clearInput(s)
    ELSE restoreCurrentInput(s)

navigateHistory(s, direction) ==
    IF Len(s.history) = 0 THEN s
    ELSE IF direction = "up" THEN navigateUp(s)
    ELSE IF direction = "down" THEN navigateDown(s)
    ELSE s

moveLeft(s) ==
    IF s.cursorPosition > 0
    THEN renderInputLine([s EXCEPT !.cursorPosition = @ - 1])
    ELSE s

\* variant: right moves the cursor without looking at the buffer length
moveRightUnchecked(s) == [s EXCEPT !.cursorPosition = @ + 1]

moveRight(s) ==
    IF s.cursorPosition < Len(s.inputBuffer)
    THEN renderInputLine([s EXCEPT !.cursorPosition = @ + 1])
    ELSE s

moveHome(s) == renderInputLine([s EXCEPT !.cursorPosition = 0])

moveEnd(s) == renderInputLine([s EXCEPT !.cursorPosition = Len(s.inputBuffer)])

\* variant: Delete while browsing writes the edited text back into the entry
deleteForwardEditsEntry(s) ==
    IF s.cursorPosition < Len(s.inputBuffer)
    THEN LET text == Slice(s.inputBuffer, 0, s.cursorPosition)
                         \o SliceFrom(s.inputBuffer, s.cursorPosition + 1)
         IN  IF s.historyIndex # -1
             THEN [s EXCEPT !.inputBuffer = text,
                            !.history[s.historyIndex + 1] = text]
             ELSE [s EXCEPT !.inputBuffer = text]
    ELSE s

\* variant: Delete leaves browsing as the other edits do
deleteForwardLeavesBrowsing(s) ==
    LET r == resetHistoryNavigation(s)
    IN  IF r.cursorPosition < Len(r.inputBuffer)
        THEN [r EXCEPT !.inputBuffer =
                           Slice(r.inputBuffer, 0, r.cursorPosition)
                               \o SliceFrom(r.inputBuffer, r.cursorPosition + 1)]
        ELSE r

deleteForward(s) ==
    IF s.cursorPosition < Len(s.inputBuffer)
    THEN renderInputLine(
             [s EXCEPT !.inputBuffer =
                           Slice(s.inputBuffer, 0, s.cursorPosition)
                               \o SliceFrom(s.inputBuffer, s.cursorPosition + 1)])
    ELSE s

handleSpecialKey(s, key) ==
    CASE key = "up" -> navigateHistory(s, "up")
      [] key = "down" -> navigateHistory(s, "down")
      [] key = "left" -> moveLeft(s)
      [] key = "right" -> moveRight(s)
      [] key = "home" -> moveHome(s)
      [] key = "end" -> moveEnd(s)
      [] key = "delete" -> deleteForward(s)
      [] OTHER -> s

\* variant: the cursor stays where it was after a typed character
insertCharacterKeepsCursor(s, char) ==
    LET r == resetHistoryNavigation(s)
    IN  [r EXCEPT !.inputBuffer =
                      Slice(r.inputBuffer, 0, r.cursorPosition)
                          \o char
                          \o SliceFrom(r.inputBuffer, r.cursorPosition)]

\* variant: a typed character does not leave browsing
insertCharacterKeepsBrowsing(s, char) ==
    [s EXCEPT !.inputBuffer =
                  Slice(s.inputBuffer, 0, s.cursorPosition)
                      \o char
                      \o SliceFrom(s.inputBuffer, s.cursorPosition),
              !.cursorPosition = @ + 1]

insertCharacter(s, char) ==
    LET r == resetHistoryNavigation(s)
    IN  renderInputLine(
            [r EXCEPT !.inputBuffer =
                          Slice(r.inputBuffer, 0, r.cursorPosition)
                              \o char
                              \o SliceFrom(r.inputBuffer, r.cursorPosition),
                      !.cursorPosition = @ + 1])

\* variant: backspace removes the character under the cursor
handleBackspaceAtCursor(s) ==
    LET r == resetHistoryNavigation(s)
    IN  IF r.cursorPosition > 0
        THEN [r EXCEPT !.inputBuffer =
                           Slice(r.inputBuffer, 0, r.cursorPosition)
                               \o SliceFrom(r.inputBuffer, r.cursorPosition + 1),
                       !.cursorPosition = @ - 1]
        ELSE r

handleBackspace(s) ==
    LET r == resetHistoryNavigation(s)
    IN  IF r.cursorPosition > 0
        THEN renderInputLine(
                 [r EXCEPT !.inputBuffer =
                               Slice(r.inputBuffer, 0, r.cursorPosition - 1)
                                   \o SliceFrom(r.inputBuffer, r.cursorPosition),
                           !.cursorPosition = @ - 1])
        ELSE r

\* variant: Enter puts a saved draft back before the line is read
handleEnterRestoresDraft(s) ==
    IF s.historyIndex # -1
    THEN [s EXCEPT !.historyIndex = -1,
                   !.inputBuffer = s.savedCurrentInput,
                   !.cursorPosition = Len(s.savedCurrentInput),
                   !.savedCurrentInput = <<>>]
    ELSE s

handleEnter(s) ==
    resetHistoryNavigation([s EXCEPT !.output = @ \o << write(<<10>>) >>])

\* const exitHandler = () => { this.disableRawMode(); }
\* variant: the handler registered for exit and signals does nothing
exitHandlerKeepsRawMode(s) == s

exitHandler(s) == disableRawMode(s)

\* variant: process.exit runs the handlers and returns to its caller
processExitReturns(s, code) ==
    [(IF s.exitHandlers > 0 THEN exitHandler(s) ELSE s)
        EXCEPT !.exitCode = {code}]

\* process.exit(code): the registered 'exit' handlers run and the process ends
processExit(s, code) ==
    [(IF s.exitHandlers > 0 THEN exitHandler(s) ELSE s)
        EXCEPT !.exited = TRUE, !.exitCode = {code}]

\* SIGINT or SIGTERM: the registered handlers run and the process goes on;
\* with none registered the signal ends the process
processSignal(s) ==
    IF s.exitHandlers > 0 THEN exitHandler(s) ELSE [s EXCEPT !.exited = TRUE]

\* variant: a single control character is typed into the buffer too
handleKeyPressInsertsControls(s, data) ==
    LET input == toString(data)
        key == IF input # <<>> /\ Head(input) = 27
               THEN parseAnsiSequence(data)
               ELSE "null"
    IN  IF key # "null" THEN handleSpecialKey(s, key)
        ELSE IF input = <<3>> THEN processExit(s, 0)
        ELSE IF input = <<127>> \/ input = <<8>> THEN handleBackspace(s)
        ELSE IF input = <<13>> \/ input = <<10>> THEN handleEnter(s)
        ELSE IF Len(input) = 1 /\ input[1] <= 126
        THEN insertCharacter(s, input)
        ELSE s

handleKeyPress(s, data) ==
    LET input == toString(data)
        key == IF input # <<>> /\ Head(input) = 27
               THEN parseAnsiSequence(data)
               ELSE "null"
    IN  IF key # "null" THEN handleSpecialKey(s, key)
        ELSE IF input = <<3>> THEN processExit(s, 0)
        ELSE IF input = <<127>> \/ input = <<8>> THEN handleBackspace(s)
        ELSE IF input = <<13>> \/ input = <<10>> THEN handleEnter(s)
        ELSE IF Len(input) = 1 /\ input[1] >= 32 /\ input[1] <= 126
        THEN insertCharacter(s, input)
        ELSE s

\* variant: only the most recent entry is compared with the new line
addToHistoryComparesFirst(hist, result) ==
    IF result # <<>> /\ (hist = <<>> \/ hist[1] # result)
    THEN LET added == Unshift(hist, result)
         IN  IF Len(added) > HistoryCap
             THEN Slice(added, 0, HistoryCap)
             ELSE added
    ELSE hist

\* variant: every non-empty line is added, present or not
addToHistoryAlways(hist, result) ==
    IF result # <<>>
    THEN LET added == Unshift(hist, result)
         IN  IF Len(added) > HistoryCap
             THEN Slice(added, 0, HistoryCap)
             ELSE added
    ELSE hist

\* variant: the history is never cut
addToHistoryUncapped(hist, result) ==
    IF result # <<>> /\ ~Includes(hist, result)
    THEN Unshift(hist, result)
    ELSE hist

\* "Add non-empty answers to history"
addToHistory(hist, result) ==
    IF result # <<>> /\ ~Includes(hist, result)
    THEN LET added == Unshift(hist, result)
         IN  IF Len(added) > HistoryCap
             THEN Slice(added, 0, HistoryCap)
             ELSE added
    ELSE hist

\* the listener promptForInput registers on process.stdin 'data'
\* variant: the session resolves without leaving raw mode
dataHandlerKeepsRawMode(s, data) ==
    LET k == handleKeyPress(s, data)
        input == toString(data)
    IN  IF k.exited THEN k
        ELSE IF input = <<13>> \/ input = <<10>>
        THEN LET c == [k EXCEPT !.listeners = @ - 1]
                 result == Trim(c.inputBuffer)
             IN  [c EXCEPT !.history = addToHistory(c.history, result),
                           !.resolved = result]
        ELSE k

\* variant: a chunk that merely ends with CR or LF resolves the call too
dataHandlerResolvesOnLineEnd(s, data) ==
    LET k == handleKeyPress(s, data)
        input == toString(data)
    IN  IF k.exited THEN k
        ELSE IF input # <<>> /\ input[Len(input)] \in {13, 10}
        THEN LET c == disableRawMode([k EXCEPT !.listeners = @ - 1])
                 result == Trim(c.inputBuffer)
             IN  [c EXCEPT !.history = addToHistory(c.history, result),
                           !.resolved = result]
        ELSE k

dataHandler(s, data) ==
    LET k == handleKeyPress(s, data)
        input == toString(data)
    IN  IF k.exited THEN k
        ELSE IF input = <<13>> \/ input = <<10>>
        THEN LET c == disableRawMode([k EXCEPT !.listeners = @ - 1])
                 result == Trim(c.inputBuffer)
                 \* the array after history.unshift, before any slice
                 grown == IF result # <<>> /\ ~Includes(c.history, result)
                          THEN Unshift(c.history, result)
                          ELSE c.history
             IN  [c EXCEPT !.history = addToHistory(c.history, result),
                           !.caller = IF c.aliased THEN grown ELSE @,
                           !.aliased = @ /\ Len(grown) <= HistoryCap,
                           !.resolved = result]
        ELSE k

\* the synchronous body of promptForInput
\* variant: the new call goes on with the buffer the last one left
promptForInputKeepsBuffer(s) ==
    LET r == resetHistoryNavigation(s)
    IN  [enableRawMode(r) EXCEPT !.listeners = @ + 1, !.exitHandlers = @ + 1]

\* variant: the exit handler is registered by the first call only
promptForInputRegistersOnce(s) ==
    LET r == resetHistoryNavigation([s EXCEPT !.inputBuffer = <<>>,
                                              !.cursorPosition = 0])
        w == [r EXCEPT !.output = @ \o << write(Prompt) >>]
    IN  [enableRawMode(w) EXCEPT !.listeners = @ + 1,
                                 !.exitHandlers = IF @ = 0 THEN 1 ELSE @]

promptForInput(s) ==
    LET r == resetHistoryNavigation([s EXCEPT !.inputBuffer = <<>>,
                                              !.cursorPosition = 0])
        w == [r EXCEPT !.output = @ \o << write(Prompt) >>]
    IN  [enableRawMode(w) EXCEPT !.listeners = @ + 1, !.exitHandlers = @ + 1]

\* variant: the list is replaced while browsing goes on
updateHistoryKeepsBrowsing(s, newHistory) ==
    [s EXCEPT !.history = newHistory, !.caller = newHistory, !.aliased = FALSE]

\* variant: the handler keeps the caller's array itself
updateHistoryShares(s, newHistory) ==
    resetHistoryNavigation([s EXCEPT !.history = newHistory,
                                     !.caller = newHistory,
                                     !.aliased = TRUE])

\* this.history = [...newHistory] is a new array with the same elements
updateHistory(s, newHistory) ==
    resetHistoryNavigation([s EXCEPT !.history = newHistory,
                                     !.caller = newHistory,
                                     !.aliased = FALSE])

close(s) == disableRawMode(s)

----------------------------------------------------------------------------
(* The environment: supplied histories and keystroke chunks. *)

\* a line that cannot be typed from Printable
Line(k) == <<1000 + k>>

\* a history of n distinct lines, most recent (Line(n)) first
Big(n) == [i \in 1..n |-> Line(n + 1 - i)]

\* short lists given to the constructor and to updateHistory:
\* [], [" a"] (untrimmed) and ["aa", "a", " a"]
Histories ==
    { <<>>, << <<32, 97>> >>, << <<97, 97>>, <<97>>, <<32, 97>> >> }

\* lists just below, at and above the cap
LongHistories == { Big(HistoryCap - 1), Big(HistoryCap), Big(HistoryCap + 1) }

\* printable characters the user types: "a" and " "
Printable == { <<97>>, <<32>> }

\* the Enter chunks
Enter == { <<13>>, <<10>> }

\* chunks that are neither typed text, navigation, editing, Ctrl+C nor Enter:
\* ESC [ Z, a lone ESC, Ctrl+A, a two-character paste and a two-byte letter
Ignored ==
    { <<27, 91, 90>>, <<27>>, <<1>>, <<9>>, <<97, 97>>, <<13, 10>>,
      <<195, 169>> }

Chunks ==
    { <<27, 91, 65>>, <<27, 91, 66>>, <<27, 91, 67>>, <<27, 91, 68>>,
      <<27, 91, 72>>, <<27, 91, 49, 126>>, <<27, 91, 70>>, <<27, 91, 52, 126>>,
      <<27, 91, 51, 126>>, <<3>>, <<127>>, <<8>> }
        \cup Enter \cup Printable \cup Ignored

\* the handler object and the process state it reads and writes
self ==
    [ history |-> history,
      caller |-> caller,
      aliased |-> aliased,
      historyIndex |-> historyIndex,
      inputBuffer |-> inputBuffer,
      cursorPosition |-> cursorPosition,
      savedCurrentInput |-> savedCurrentInput,
      isRawMode |-> isRawMode,
      isTTY |-> isTTY,
      setRawModeCalls |-> setRawModeCalls,
      listeners |-> listeners,
      exitHandlers |-> exitHandlers,
      exited |-> exited,
      exitCode |-> exitCode,
      resolved |-> resolved,
      output |-> <<>> ]

\* the handler and process variables become the record n
Becomes(n) ==
    /\ history' = n.history
    /\ caller' = n.caller
    /\ aliased' = n.aliased
    /\ historyIndex' = n.historyIndex
    /\ inputBuffer' = n.inputBuffer
    /\ cursorPosition' = n.cursorPosition
    /\ savedCurrentInput' = n.savedCurrentInput
    /\ isRawMode' = n.isRawMode
    /\ isTTY' = n.isTTY
    /\ setRawModeCalls' = n.setRawModeCalls
    /\ listeners' = n.listeners
    /\ exitHandlers' = n.exitHandlers
    /\ exited' = n.exited
    /\ exitCode' = n.exitCode
    /\ resolved' = n.resolved

\* process.stdin emits 'data': every listener registered at that moment runs
RECURSIVE emit(_, _, _)
\* variant: only the listener registered first runs
emitFirstOnly(s, data, n) ==
    IF n = 0 \/ s.exited THEN s ELSE dataHandler(s, data)

emit(s, data, n) ==
    IF n = 0 \/ s.exited THEN s ELSE emit(dataHandler(s, data), data, n - 1)

----------------------------------------------------------------------------
(* State machine. *)

\* new ChatInputHandler(initial) in a fresh process
Constructed(initial) ==
    /\ history \in initial
    /\ caller = history
    /\ aliased = FALSE
    /\ historyIndex = -1
    /\ inputBuffer = <<>>
    /\ cursorPosition = 0
    /\ savedCurrentInput = <<>>
    /\ isRawMode = FALSE
    /\ isTTY \in BOOLEAN
    /\ setRawModeCalls = 0
    /\ listeners = 0
    /\ exitHandlers = 0
    /\ exited = FALSE
    /\ exitCode = {}
    /\ resolved = NoLine
    /\ submitted = "none"
    /\ draft = NoLine
    /\ typed = NoLine
    /\ calls = 0
    /\ decoderInput = <<>>
    /\ decoderOutput = "null"

\* the chat loop awaits each line before it prompts again
PromptForInput ==
    /\ ~exited
    /\ listeners = 0
    /\ Becomes(promptForInput(self))
    /\ draft' = NoLine
    /\ typed' = <<>>
    /\ calls' = calls + 1
    /\ UNCHANGED <<submitted, decoderInput, decoderOutput>>

\* promptForInput is called again before the pending call has resolved
PromptWhilePending ==
    /\ ~exited
    /\ listeners > 0
    /\ Becomes(promptForInput(self))
    /\ draft' = NoLine
    /\ typed' = <<>>
    /\ calls' = calls + 1
    /\ UNCHANGED <<submitted, decoderInput, decoderOutput>>

\* a chunk arrives on stdin while a call is pending
KeyPress(data) ==
    /\ ~exited
    /\ listeners > 0
    /\ data \in Printable => Len(inputBuffer) < MaxLen
    /\ Becomes(emit(self, data, listeners))
    /\ submitted' =
           IF data \notin Enter THEN submitted
           ELSE IF history' # history THEN "added" ELSE "kept"
    /\ draft' =
           IF parseAnsiSequence(data) = "up"
           THEN IF historyIndex = -1 /\ history # <<>> THEN inputBuffer ELSE draft
           ELSE IF parseAnsiSequence(data) = "down" THEN draft
           ELSE NoLine
    /\ typed' =
           IF data \in Printable /\ typed # NoLine
           THEN typed \o toString(data)
           ELSE NoLine
    /\ UNCHANGED <<calls, decoderInput, decoderOutput>>

UpdateHistory(newHistory) ==
    /\ ~exited
    /\ Becomes(updateHistory(self, newHistory))
    /\ submitted' = "none"
    /\ draft' = NoLine
    /\ UNCHANGED <<typed, calls, decoderInput, decoderOutput>>

Close ==
    /\ ~exited
    /\ Becomes(close(self))
    /\ draft' = NoLine
    /\ UNCHANGED <<submitted, typed, calls, decoderInput, decoderOutput>>

\* SIGINT or SIGTERM is delivered to the process
Signal ==
    /\ ~exited
    /\ Becomes(processSignal(self))
    /\ draft' = NoLine
    /\ UNCHANGED <<submitted, typed, calls, decoderInput, decoderOutput>>

\* the chat command ends the process with process.exit(1)
ProcessExit ==
    /\ ~exited
    /\ Becomes(processExit(self, 1))
    /\ draft' = NoLine
    /\ UNCHANGED <<submitted, typed, calls, decoderInput, decoderOutput>>

\* parseAnsiSequence is called on a chunk, as its unit tests call it
Decode(data) ==
    /\ decoderInput' = data
    /\ decoderOutput' = parseAnsiSequence(data)
    /\ UNCHANGED <<history, caller, aliased, historyIndex, inputBuffer,
                   cursorPosition, savedCurrentInput, isRawMode, isTTY,
                   setRawModeCalls, listeners,
                   exitHandlers, exited, exitCode, resolved, submitted,
                   draft, typed, calls>>

\* editing runs: every chunk, over short histories
Init == Constructed(Histories)

Next ==
    \/ exitHandlers < MaxCalls /\ PromptForInput
    \/ \E data \in Chunks : KeyPress(data)
    \/ \E newHistory \in Histories : UpdateHistory(newHistory)
    \/ Close
    \/ Signal
    \/ ProcessExit

Spec == Init /\ [][Next]_vars

\* submission runs: typed lines, over short histories and ones around the cap
InitCap == Constructed(Histories \cup LongHistories)

NextCap ==
    \/ exitHandlers < MaxSubmissions /\ PromptForInput
    \/ \E data \in Printable \cup Enter : KeyPress(data)
    \/ \E newHistory \in Histories \cup LongHistories : UpdateHistory(newHistory)
    \/ Close

SpecCap == InitCap /\ [][NextCap]_vars

\* overlapping runs: promptForInput may be called while a call is pending;
\* typed text, Enter, the up key and backspace
OverlapChunks == Printable \cup Enter \cup { <<27, 91, 65>>, <<127>> }

NextOverlap ==
    \/ exitHandlers < MaxSubmissions /\ PromptForInput
    \/ exitHandlers < MaxSubmissions /\ PromptWhilePending
    \/ \E data \in OverlapChunks : KeyPress(data)

SpecOverlap == Init /\ [][NextOverlap]_vars

\* decoder runs: parseAnsiSequence applied to chunk after chunk
DecoderChunks ==
    Chunks \cup { <<>>, <<27, 91>>, <<27, 91, 50, 126>>, <<27, 91, 65, 65>>,
                  <<27, 79, 65>>, <<65>>, <<91, 65>> }

NextDecode == \E data \in DecoderChunks : Decode(data)

SpecDecode == Init /\ [][NextDecode]_vars

----------------------------------------------------------------------------
(* Properties. *)

Up == <<27, 91, 65>>

Down == <<27, 91, 66>>

\* some Enter chunk is delivered in this step
Submits == \E data \in Enter : KeyPress(data)

\* number of positions of hist holding the same line as the next position
AdjacentDuplicates(hist) ==
    Cardinality({i \in 1..(Len(hist) - 1) : hist[i] = hist[i + 1]})

\* C1: an Enter chunk during a pending promptForInput resolves the call with
\* exactly the trim of the buffer as it was when the chunk arrived, typed or
\* loaded from history (no saved draft is restored first); an empty or
\* whitespace-only buffer resolves with the empty string and leaves the
\* history unchanged.
C1_EnterResolvesTrimmedBuffer ==
    [][Submits =>
         /\ resolved' = Trim(inputBuffer)
         /\ listeners' = listeners - 1
         /\ Trim(inputBuffer) = <<>> => (resolved' = <<>> /\ history' = history)
      ]_vars

\* C1 witness: a call has resolved with "a" from the buffer " a".
C1_Witness ==
    /\ listeners = 0
    /\ exitHandlers > 0
    /\ inputBuffer = <<32, 97>>
    /\ resolved = <<97>>

\* C2 as stated: on Enter every non-empty trimmed line that differs from
\* history[0] (or any such line when history is empty) becomes the new first
\* entry, the former entries following in order, cut at the cap, whether or
\* not the line occurs elsewhere in history.
C2_Original ==
    [][Submits /\ Trim(inputBuffer) # <<>>
               /\ (history = <<>> \/ history[1] # Trim(inputBuffer))
         => history' = Slice(Unshift(history, Trim(inputBuffer)), 0, HistoryCap)
      ]_vars

\* C2 amended: on Enter a non-empty trimmed line that occurs nowhere in
\* history becomes the new first entry, the former entries following in their
\* previous order, cut at the cap; a line that occurs anywhere in history,
\* first or not, leaves history unchanged.
C2_NewLineGoesFirst ==
    [][Submits /\ Trim(inputBuffer) # <<>>
         => IF Includes(history, Trim(inputBuffer))
            THEN history' = history
            ELSE history' =
                     Slice(Unshift(history, Trim(inputBuffer)), 0, HistoryCap)
      ]_vars

\* C2 witness: the line "a" was typed over [" a"] and became the first entry.
C2_Witness ==
    /\ submitted = "added"
    /\ resolved = <<97>>
    /\ history = << <<97>>, <<32, 97>> >>

\* C3 as stated: a submission whose trimmed line equals history[0] leaves
\* history unchanged, two consecutive sessions submitting the same non-empty
\* line add exactly one entry between them, and a submission adds no pair of
\* equal adjacent entries.
C3_Original ==
    [][Submits /\ Trim(inputBuffer) # <<>>
         => /\ (history # <<>> /\ history[1] = Trim(inputBuffer))
                    => history' = history
            /\ (submitted # "none" /\ resolved = Trim(inputBuffer))
                    => ((submitted = "added") # (history' # history))
            /\ AdjacentDuplicates(history') <= AdjacentDuplicates(history)
      ]_vars

\* C3 amended: a submission whose trimmed line equals history[0] leaves
\* history unchanged, two consecutive sessions submitting the same non-empty
\* line add at most one entry between them (the second adds none, and the
\* first adds none either when the line already occurs in history), and a
\* submission adds no pair of equal adjacent entries.
C3_RepeatedLineAddedOnce ==
    [][Submits /\ Trim(inputBuffer) # <<>>
         => /\ (history # <<>> /\ history[1] = Trim(inputBuffer))
                    => history' = history
            /\ (submitted # "none" /\ resolved = Trim(inputBuffer))
                    => history' = history
            /\ Includes(history, Trim(inputBuffer)) => history' = history
            /\ Len(history') <= Len(history) + 1
            /\ AdjacentDuplicates(history') <= AdjacentDuplicates(history)
      ]_vars

\* C3 witness: the second of two sessions has submitted "a" again; the first
\* had added it, the second left the history as it was.
C3_Witness ==
    /\ exitHandlers >= 2
    /\ listeners = 0
    /\ submitted = "kept"
    /\ resolved = <<97>>
    /\ history = << <<97>> >>

\* C4 as stated: in every reachable state history holds at most 100 lines.
C4_Original == Len(history) <= HistoryCap

\* C4 amended: a submission never leaves more than 100 lines in a history it
\* changes, so history is longer than 100 only while it is the copy of a list
\* of more than 100 lines given to the constructor or to updateHistory (both
\* copy the list without cutting it); a submission of a new line when history
\* holds 100 evicts the oldest (last) entry.
C4_SubmissionsKeepCap ==
    /\ [](Len(history) > HistoryCap => history \in LongHistories)
    /\ [][Submits =>
            /\ history' = history \/ Len(history') <= HistoryCap
            /\ (/\ Len(history) = HistoryCap
                /\ Trim(inputBuffer) # <<>>
                /\ ~Includes(history, Trim(inputBuffer)))
                    => history' = <<Trim(inputBuffer)>>
                                      \o SubSeq(history, 1, HistoryCap - 1)
         ]_vars

\* C4 witness: "a" was added to the 100-line history; Line(1), the oldest,
\* is gone and Line(2) is now last.
C4_Witness ==
    /\ submitted = "added"
    /\ Len(history) = HistoryCap
    /\ history[1] = <<97>>
    /\ history[2] = Line(HistoryCap)
    /\ history[HistoryCap] = Line(2)

\* C5: in every reachable state the cursor lies within the buffer,
\* 0 <= cursorPosition <= length(inputBuffer).
C5_CursorWithinBuffer ==
    0 <= cursorPosition /\ cursorPosition <= Len(inputBuffer)

\* C5 witness: a session in which the cursor has been moved to the start of a
\* buffer of MaxLen characters.
C5_Witness ==
    /\ listeners > 0
    /\ Len(inputBuffer) >= MaxLen
    /\ cursorPosition = 0

\* C6: in every reachable state historyIndex = -1 implies that the saved
\* draft is empty.
C6_NotBrowsingHasNoDraft ==
    historyIndex = -1 => savedCurrentInput = <<>>

\* C6 witness: browsing was entered with the draft "a " and has been left
\* again with the down key.
C6_Witness ==
    /\ draft = <<97, 32>>
    /\ historyIndex = -1
    /\ inputBuffer = <<97, 32>>
    /\ savedCurrentInput = <<>>

\* C7: in every reachable state historyIndex is -1 or an index of history,
\* 0 <= historyIndex <= length(history) - 1; with an empty history it is -1.
C7_IndexWithinHistory ==
    /\ historyIndex = -1 \/ (0 <= historyIndex /\ historyIndex <= Len(history) - 1)
    /\ history = <<>> => historyIndex = -1

\* C7 witness: browsing stands at the oldest of three entries.
C7_Witness ==
    /\ Len(history) >= 3
    /\ historyIndex = Len(history) - 1
    /\ inputBuffer = history[Len(history)]

\* C8: the up key pressed while not browsing, with a non-empty history, saves
\* the buffer as it was before the key, sets historyIndex to 0, loads
\* history[0] into the buffer and puts the cursor at its end.
C8_UpEntersBrowsing ==
    [][historyIndex = -1 /\ history # <<>> /\ KeyPress(Up)
         => /\ savedCurrentInput' = inputBuffer
            /\ historyIndex' = 0
            /\ inputBuffer' = history[1]
            /\ cursorPosition' = Len(history[1])
            /\ history' = history
      ]_vars

\* C8 witness: browsing stands at the most recent entry with the draft "a "
\* saved, the buffer showing the entry.
C8_Witness ==
    /\ historyIndex = 0
    /\ savedCurrentInput = <<97, 32>>
    /\ draft = <<97, 32>>
    /\ inputBuffer = history[1]
    /\ inputBuffer # savedCurrentInput
    /\ cursorPosition = Len(inputBuffer)

\* C9: while browsing, up and down move by exactly one entry and stop at the
\* ends: up from i < len-1 gives i+1 and loads history[i+1], down from i > 0
\* gives i-1 and loads history[i-1], the cursor at the end of the loaded text
\* and the saved draft unchanged; up at the oldest entry, down while not
\* browsing, and either key with an empty history change nothing.
C9_BrowsingStepsByOne ==
    [][/\ (historyIndex # -1 /\ historyIndex < Len(history) - 1 /\ KeyPress(Up))
            => /\ historyIndex' = historyIndex + 1
               /\ inputBuffer' = history[historyIndex + 2]
               /\ cursorPosition' = Len(history[historyIndex + 2])
               /\ savedCurrentInput' = savedCurrentInput
       /\ (historyIndex > 0 /\ KeyPress(Down))
            => /\ historyIndex' = historyIndex - 1
               /\ inputBuffer' = history[historyIndex]
               /\ cursorPosition' = Len(history[historyIndex])
               /\ savedCurrentInput' = savedCurrentInput
       /\ (\/ historyIndex = Len(history) - 1 /\ KeyPress(Up)
           \/ historyIndex = -1 /\ KeyPress(Down)
           \/ history = <<>> /\ (KeyPress(Up) \/ KeyPress(Down)))
            => UNCHANGED <<inputBuffer, cursorPosition, historyIndex,
                           savedCurrentInput>>
      ]_vars

\* C9 witness: browsing went up to an older entry and came back down by one,
\* the draft "a" still saved.
C9_Witness ==
    /\ Len(history) >= 3
    /\ historyIndex = 1
    /\ inputBuffer = history[2]
    /\ cursorPosition = Len(history[2])
    /\ savedCurrentInput = <<97>>
    /\ draft = <<97>>

\* C10: round trip.  A draft whose trim is not empty, left by one or more up
\* keys and reached again by down keys with nothing but up and down keys in
\* between, is back in the buffer verbatim with the cursor at its end,
\* historyIndex -1 and no saved draft.
C10_DraftRoundTrip ==
    (draft # NoLine /\ Trim(draft) # <<>> /\ historyIndex = -1)
        => /\ inputBuffer = draft
           /\ cursorPosition = Len(draft)
           /\ savedCurrentInput = <<>>

\* C10 witness: the draft " a" is back after a trip into a history of two or
\* more entries.
C10_Witness ==
    /\ draft = <<32, 97>>
    /\ Len(history) >= 2
    /\ historyIndex = -1
    /\ inputBuffer = <<32, 97>>
    /\ cursorPosition = 2

Backspaces == { <<127>>, <<8>> }

Delete == <<27, 91, 51, 126>>

Interrupt == <<3>>

\* a prompt is waiting for input
Pending == listeners > 0 /\ ~exited

\* the handler after the chunk data has been delivered to it
After(data) == emit(self, data, listeners)

\* C11: a down key at the most recent entry (historyIndex 0) with a saved
\* draft that is empty or only white space ends with an empty buffer, the
\* cursor at 0, historyIndex -1 and no saved draft: the white space is not
\* put back.
C11_DownDropsBlankDraft ==
    (Pending /\ historyIndex = 0 /\ Trim(savedCurrentInput) = <<>>) =>
        /\ After(Down).inputBuffer = <<>>
        /\ After(Down).cursorPosition = 0
        /\ After(Down).historyIndex = -1
        /\ After(Down).savedCurrentInput = <<>>

\* C11 witness: the draft was one space, browsing was left downwards and the
\* buffer is empty.
C11_Witness ==
    /\ draft = <<32>>
    /\ listeners > 0
    /\ historyIndex = -1
    /\ inputBuffer = <<>>
    /\ cursorPosition = 0
    /\ savedCurrentInput = <<>>

\* C12: while browsing, a printable character or a backspace (also one at
\* cursor 0, which removes nothing) sets historyIndex to -1 and the saved
\* draft to "" in that step and edits the history text in the buffer; the up
\* key that follows saves the edited buffer as the draft.
C12_EditLeavesBrowsing ==
    (Pending /\ historyIndex # -1) =>
        /\ \A c \in Printable :
              /\ After(c).historyIndex = -1
              /\ After(c).savedCurrentInput = <<>>
              /\ After(c).inputBuffer =
                    Slice(inputBuffer, 0, cursorPosition)
                        \o c
                        \o SliceFrom(inputBuffer, cursorPosition)
        /\ \A b \in Backspaces :
              /\ After(b).historyIndex = -1
              /\ After(b).savedCurrentInput = <<>>
              /\ After(b).inputBuffer =
                    IF cursorPosition > 0
                    THEN Slice(inputBuffer, 0, cursorPosition - 1)
                             \o SliceFrom(inputBuffer, cursorPosition)
                    ELSE inputBuffer
        /\ \A e \in Printable \cup Backspaces :
              emit(After(e), Up, listeners).savedCurrentInput
                  = After(e).inputBuffer

\* C12 witness: the entry "a" was loaded, a space typed in front of it, and
\* the next up key saved " a" as the draft.
C12_Witness ==
    /\ typed = NoLine
    /\ draft = <<32, 97>>
    /\ historyIndex = 0
    /\ savedCurrentInput = <<32, 97>>
    /\ Len(history) >= 3

\* C13: the decoder gives every chunk exactly one result: ESC[A up, ESC[B
\* down, ESC[C right, ESC[D left, ESC[H and ESC[1~ home, ESC[F and ESC[4~
\* end, ESC[3~ delete, and none (null) for every other chunk.
C13_DecoderIsTotal ==
    /\ decoderOutput \in
          {"up", "down", "right", "left", "home", "end", "delete", "null"}
    /\ decoderOutput = "up" <=> decoderInput = <<27, 91, 65>>
    /\ decoderOutput = "down" <=> decoderInput = <<27, 91, 66>>
    /\ decoderOutput = "right" <=> decoderInput = <<27, 91, 67>>
    /\ decoderOutput = "left" <=> decoderInput = <<27, 91, 68>>
    /\ decoderOutput = "home"
          <=> decoderInput \in { <<27, 91, 72>>, <<27, 91, 49, 126>> }
    /\ decoderOutput = "end"
          <=> decoderInput \in { <<27, 91, 70>>, <<27, 91, 52, 126>> }
    /\ decoderOutput = "delete" <=> decoderInput = <<27, 91, 51, 126>>

\* C13 witness: ESC[1~ has been decoded as home.
C13_Witness ==
    /\ decoderInput = <<27, 91, 49, 126>>
    /\ decoderOutput = "home"

\* C14: a chunk that is no recognized navigation sequence, not the interrupt
\* byte, not a backspace byte, not an Enter byte and not one character in
\* 0x20..0x7E (ESC[Z, a lone ESC, a control byte below 0x20, a chunk of
\* several characters) leaves buffer, cursor, historyIndex, saved draft and
\* history as they are and does not resolve the session: in every state with
\* a pending prompt, delivering such a chunk gives the same fields back.
C14_OtherChunksIgnored ==
    (listeners > 0 /\ ~exited) =>
        \A data \in Ignored :
            LET n == emit(self, data, listeners)
            IN  /\ n.inputBuffer = inputBuffer
                /\ n.cursorPosition = cursorPosition
                /\ n.historyIndex = historyIndex
                /\ n.savedCurrentInput = savedCurrentInput
                /\ n.history = history
                /\ n.resolved = resolved
                /\ n.listeners = listeners
                /\ n.isRawMode = isRawMode
                /\ n.exited = exited

\* C14 witness: browsing with a saved draft, the entry shown whole, after a
\* chunk that was neither an up nor a down key.
C14_Witness ==
    /\ listeners > 0
    /\ historyIndex = 1
    /\ savedCurrentInput = <<97>>
    /\ inputBuffer = history[2]
    /\ cursorPosition = Len(history[2])
    /\ draft = NoLine
    /\ typed = NoLine

\* C15: a printable character c typed with the cursor at p gives the buffer
\* buffer[0..p) + c + buffer[p..) and the cursor p + 1; so characters typed
\* into the empty buffer of a new prompt with no other key in between give
\* their concatenation in order, with the cursor at the end.
C15_InsertAtCursor ==
    /\ Pending =>
          \A c \in Printable :
              /\ After(c).inputBuffer =
                    Slice(inputBuffer, 0, cursorPosition)
                        \o c
                        \o SliceFrom(inputBuffer, cursorPosition)
              /\ After(c).cursorPosition = cursorPosition + 1
    /\ typed # NoLine =>
          /\ inputBuffer = typed
          /\ cursorPosition = Len(typed)

\* C15 witness: a space and then "a" were typed and nothing else.
C15_Witness ==
    /\ typed = <<32, 97>>
    /\ inputBuffer = <<32, 97>>
    /\ cursorPosition = 2

\* C16: a backspace with the cursor at p > 0 removes exactly the character at
\* p - 1 and puts the cursor at p - 1; with the cursor at 0 buffer and cursor
\* stay as they are.
C16_BackspaceBeforeCursor ==
    Pending =>
        \A b \in Backspaces :
            IF cursorPosition > 0
            THEN /\ After(b).inputBuffer =
                       Slice(inputBuffer, 0, cursorPosition - 1)
                           \o SliceFrom(inputBuffer, cursorPosition)
                 /\ After(b).cursorPosition = cursorPosition - 1
            ELSE /\ After(b).inputBuffer = inputBuffer
                 /\ After(b).cursorPosition = cursorPosition

\* C16 witness: with no history to browse, "a" is left with the cursor in
\* front of it after keys other than typing.
C16_Witness ==
    /\ history = <<>>
    /\ listeners > 0
    /\ typed = NoLine
    /\ inputBuffer = <<97>>
    /\ cursorPosition = 0

\* C17: Delete with the cursor at p < length removes exactly the character
\* at p and leaves the cursor, and does nothing at the end of the buffer; in
\* both cases, browsing or not, historyIndex and the saved draft stay.
C17_DeleteKeepsBrowsing ==
    Pending =>
        /\ After(Delete).inputBuffer =
              IF cursorPosition < Len(inputBuffer)
              THEN Slice(inputBuffer, 0, cursorPosition)
                       \o SliceFrom(inputBuffer, cursorPosition + 1)
              ELSE inputBuffer
        /\ After(Delete).cursorPosition = cursorPosition
        /\ After(Delete).historyIndex = historyIndex
        /\ After(Delete).savedCurrentInput = savedCurrentInput

\* C17 witness: still browsing with a saved draft, but the buffer is no
\* longer the entry that was loaded.
C17_Witness ==
    /\ historyIndex # -1
    /\ savedCurrentInput # <<>>
    /\ inputBuffer # history[historyIndex + 1]

\* C18: raw mode is on only while a promptForInput call is waiting for input;
\* when a call resolves, raw mode is already off and its data listener is
\* removed, so no listener is left once nothing is pending.
C18_RawModeOnlyWhilePending ==
    /\ isRawMode => Pending
    /\ Pending =>
          \A e \in Enter :
              /\ ~After(e).isRawMode
              /\ After(e).listeners = 0

\* C18 witness: on a terminal a line was typed in raw mode and submitted; the
\* call has resolved, raw mode is off and no listener is left.
C18_Witness ==
    /\ isTTY
    /\ resolved = <<97>>
    /\ inputBuffer = <<97, 32>>
    /\ listeners = 0
    /\ ~isRawMode

\* C19: raw mode is off after the interrupt byte 0x03, after the process
\* exit event and after SIGINT or SIGTERM, whenever they come; no state of
\* an ended process has raw mode on.
C19_ExitLeavesRawMode ==
    /\ exited => ~isRawMode
    /\ ~exited =>
          /\ ~processSignal(self).isRawMode
          /\ ~processExit(self, 1).isRawMode
    /\ Pending => ~After(Interrupt).isRawMode

\* C19 witness: the process was ended with code 1 on a terminal while a
\* prompt with typed input was pending.
C19_Witness ==
    /\ exited
    /\ exitCode = {1}
    /\ isTTY
    /\ listeners > 0
    /\ inputBuffer # <<>>
    /\ ~isRawMode

\* C20: the interrupt byte 0x03 during a pending prompt ends the process
\* with exit code 0; the pending call does not resolve then or later, and
\* the buffer is not added to the history.
C20_InterruptExitsWithZero ==
    /\ [](Pending =>
            /\ After(Interrupt).exited
            /\ After(Interrupt).exitCode = {0}
            /\ After(Interrupt).resolved = resolved
            /\ After(Interrupt).history = history
            /\ After(Interrupt).listeners = listeners)
    /\ [][~exited]_vars

\* C20 witness: the process has ended with code 0 while the prompt holding
\* "a" was pending; "a" is not in the history and nothing was resolved.
C20_Witness ==
    /\ exited
    /\ exitCode = {0}
    /\ listeners > 0
    /\ inputBuffer = <<97>>
    /\ history = <<>>
    /\ resolved = NoLine

\* C21: a pending promptForInput resolves on a chunk that is exactly CR or
\* LF, in the step that delivers it, and on nothing else: no other chunk
\* resolves it, and no step other than the delivery of such a chunk (there
\* is no timer) takes a pending call away.
C21_ResolvesOnlyOnEnter ==
    /\ [](Pending =>
            /\ \A data \in Chunks \ Enter :
                  /\ After(data).listeners = listeners
                  /\ After(data).resolved = resolved
            /\ \A e \in Enter :
                  /\ After(e).listeners = 0
                  /\ After(e).resolved = Trim(After(e).inputBuffer))
    /\ [][listeners' < listeners => Submits]_vars

\* C21 witness: Enter on a buffer of one space has resolved the call with
\* the empty line.
C21_Witness ==
    /\ listeners = 0
    /\ resolved = <<>>
    /\ inputBuffer = <<32>>
    /\ submitted = "kept"

\* C22: every promptForInput call starts with an empty buffer, the cursor
\* at 0 and historyIndex -1, whatever was left behind, and keeps the history:
\* a new line submitted in one call is history[0] when the next one starts.
C22_FreshSessionKeepsHistory ==
    /\ ~exited =>
          /\ promptForInput(self).inputBuffer = <<>>
          /\ promptForInput(self).cursorPosition = 0
          /\ promptForInput(self).historyIndex = -1
          /\ promptForInput(self).history = history
    /\ (calls > 0 /\ typed = <<>>) =>
          /\ inputBuffer = <<>>
          /\ cursorPosition = 0
          /\ historyIndex = -1
    /\ submitted = "added" =>
          /\ history # <<>>
          /\ Head(history) = resolved

\* C22 witness: the second call has just started, after the first one
\* submitted the new line "a".
C22_Witness ==
    /\ calls = 2
    /\ listeners = 1
    /\ typed = <<>>
    /\ inputBuffer = <<>>
    /\ submitted = "added"
    /\ resolved = <<97>>
    /\ Head(history) = <<97>>

\* C23: updateHistory(newHistory), in any state, makes the history equal to
\* newHistory, sets historyIndex to -1 and the saved draft to "" and leaves
\* buffer and cursor; the history is a copy, as after the constructor, so a
\* later submission never changes the caller's array.
C23_UpdateHistoryCopies ==
    /\ ~exited =>
          \A newHistory \in Histories :
              LET n == updateHistory(self, newHistory)
              IN  /\ n.history = newHistory
                  /\ n.caller = newHistory
                  /\ n.historyIndex = -1
                  /\ n.savedCurrentInput = <<>>
                  /\ n.inputBuffer = inputBuffer
                  /\ n.cursorPosition = cursorPosition
    /\ ~aliased
    /\ Pending => \A e \in Enter : After(e).caller = caller

\* C23 witness: after "a" was submitted the history was replaced by the
\* empty list; the buffer still holds what was typed.
C23_Witness ==
    /\ resolved = <<97>>
    /\ submitted = "none"
    /\ history = <<>>
    /\ caller = <<>>
    /\ inputBuffer # <<>>

\* C24: close() turns raw mode off, calling the terminal exactly when raw
\* mode is on, and changes nothing else; a second close changes nothing at
\* all; a call closed while pending stays pending and resolves on Enter.
C24_CloseIsIdempotent ==
    ~exited =>
        /\ close(self) =
              [self EXCEPT !.isRawMode = FALSE,
                           !.setRawModeCalls = IF isRawMode THEN @ + 1 ELSE @]
        /\ close(close(self)) = close(self)
        /\ Pending =>
              \A e \in Enter :
                  /\ emit(close(self), e, listeners).listeners = 0
                  /\ emit(close(self), e, listeners).resolved
                        = Trim(inputBuffer)

\* C24 witness: on a terminal a call with typed input is pending and raw
\* mode has been turned off again.
C24_Witness ==
    /\ Pending
    /\ isTTY
    /\ ~isRawMode
    /\ setRawModeCalls = 2
    /\ typed = <<97>>
    /\ inputBuffer = <<97>>

\* C25: when stdin is not a terminal, enabling and disabling raw mode do
\* nothing: the terminal is never called and isRawMode stays false from
\* prompt to resolution, while typed characters are still inserted and Enter
\* resolves the call with the trimmed buffer.
C25_NoTerminalNoRawMode ==
    ~isTTY =>
        /\ ~isRawMode
        /\ setRawModeCalls = 0
        /\ enableRawMode(self) = self
        /\ disableRawMode(self) = self
        /\ Pending =>
              /\ \A c \in Printable :
                    After(c).inputBuffer =
                        Slice(inputBuffer, 0, cursorPosition)
                            \o c
                            \o SliceFrom(inputBuffer, cursorPosition)
              /\ \A e \in Enter :
                    /\ After(e).listeners = 0
                    /\ After(e).resolved = Trim(inputBuffer)
                    /\ After(e).setRawModeCalls = 0

\* C25 witness: without a terminal the typed line " a" was submitted and the
\* call resolved with "a".
C25_Witness ==
    /\ ~isTTY
    /\ calls = 1
    /\ listeners = 0
    /\ inputBuffer = <<32, 97>>
    /\ resolved = <<97>>
    /\ submitted = "added"

\* C26: in every state that is browsing (historyIndex = i, i # -1) the
\* buffer equals history[i], the entry the index points at.
C26_BufferIsHistoryEntry ==
    historyIndex # -1 => inputBuffer = history[historyIndex + 1]

\* C27: the history changes only when Enter submits a line or updateHistory
\* is called: no other chunk (up, down, typed character, backspace, Delete,
\* cursor movement, ignored chunk, interrupt) changes it, also not while an
\* entry is shown and edited, and Enter on a blank line leaves it too.
C27_HistoryFrame ==
    /\ [](Pending =>
            /\ \A data \in Chunks \ Enter : After(data).history = history
            /\ \A e \in Enter :
                  \/ After(e).history = history
                  \/ /\ Trim(inputBuffer) # <<>>
                     /\ After(e).history
                           = addToHistory(history, Trim(inputBuffer)))
    /\ [][history' # history =>
            (Submits \/ \E newHistory \in Histories : UpdateHistory(newHistory))
       ]_vars

\* C27 witness: the entry "a" was shown and a space typed after it; the
\* history is still the list that was supplied.
C27_Witness ==
    /\ Pending
    /\ Len(history) = 3
    /\ history = caller
    /\ historyIndex = -1
    /\ typed = NoLine
    /\ inputBuffer = <<97, 32>>
    /\ cursorPosition = 2

Left == <<27, 91, 68>>

Right == <<27, 91, 67>>

HomeKeys == { <<27, 91, 72>>, <<27, 91, 49, 126>> }

EndKeys == { <<27, 91, 70>>, <<27, 91, 52, 126>> }

\* the chunks of the buffer and cursor operations
EditKeys ==
    Printable \cup Backspaces \cup HomeKeys \cup EndKeys
        \cup { Delete, Left, Right }

\* the terminal calls of n are one re-render of n: the line is erased, the
\* prompt and the whole buffer written, the cursor put at column 5 + cursor
RenderedOnce(n) ==
    n.output = << [op |-> "clearLine", x |-> 0, text |-> <<>>],
                  [op |-> "cursorTo", x |-> 0, text |-> <<>>],
                  [op |-> "write", x |-> 0,
                   text |-> <<89, 111, 117, 58, 32>> \o n.inputBuffer],
                  [op |-> "cursorTo", x |-> 5 + n.cursorPosition,
                   text |-> <<>>] >>

\* C28 as stated: every insert, backspace, Delete, left, right, Home and End,
\* in every buffer and cursor state, re-renders the line: prompt, whole
\* buffer, terminal cursor at column 5 + cursor.
C28_Original ==
    (Pending /\ listeners = 1) =>
        \A key \in EditKeys : RenderedOnce(After(key))

\* C28 amended: every insert, Home and End, and every backspace, Delete, left
\* and right that changes the buffer or the cursor, re-renders the line:
\* prompt, whole buffer, terminal cursor at column 5 + cursor; a backspace
\* or left at cursor 0 and a Delete or right at the end of the buffer write
\* nothing to the terminal.
C28_RenderAfterChange ==
    (Pending /\ listeners = 1) =>
        \A key \in EditKeys :
            IF \/ key \in Printable \cup HomeKeys \cup EndKeys
               \/ After(key).inputBuffer # inputBuffer
               \/ After(key).cursorPosition # cursorPosition
            THEN RenderedOnce(After(key))
            ELSE After(key).output = <<>>

\* C28 witness: with no history, two characters were typed and the cursor
\* moved back by one.
C28_Witness ==
    /\ Pending
    /\ history = <<>>
    /\ typed = NoLine
    /\ inputBuffer = <<32, 97>>
    /\ cursorPosition = 1

\* C29: a promptForInput call made while another is pending registers a
\* second data listener on the same handler; from then on every chunk is
\* handled twice (one typed character is inserted twice), and one Enter
\* resolves both calls with the same line, which enters the history at most
\* once.
C29_OverlappingPrompts ==
    /\ Pending => promptForInput(self).listeners = listeners + 1
    /\ (Pending /\ listeners = 2) =>
          /\ \A data \in OverlapChunks :
                After(data) = dataHandler(dataHandler(self, data), data)
          /\ \A c \in Printable :
                /\ After(c).inputBuffer =
                      Slice(inputBuffer, 0, cursorPosition)
                          \o c \o c
                          \o SliceFrom(inputBuffer, cursorPosition)
                /\ After(c).cursorPosition = cursorPosition + 2
          /\ \A e \in Enter :
                /\ dataHandler(self, e).listeners = 1
                /\ dataHandler(self, e).resolved = Trim(inputBuffer)
                /\ After(e).listeners = 0
                /\ After(e).resolved = Trim(inputBuffer)
                /\ After(e).history = dataHandler(self, e).history
                /\ After(e).history = addToHistory(history, Trim(inputBuffer))

\* C29 witness: two calls are pending and the one keystroke "a" stands
\* twice in the buffer.
C29_Witness ==
    /\ listeners = 2
    /\ calls = 2
    /\ typed = <<97>>
    /\ inputBuffer = <<97, 97>>
    /\ cursorPosition = 2

\* C30: every promptForInput call adds one handler for exit, SIGINT and
\* SIGTERM and nothing takes one away: after n calls there are n, also when
\* every call has resolved; what the handlers do on a signal is to turn raw
\* mode off and nothing else.
C30_ExitHandlersAccumulate ==
    /\ exitHandlers = calls
    /\ ~exited =>
          /\ promptForInput(self).exitHandlers = exitHandlers + 1
          /\ close(self).exitHandlers = exitHandlers
          /\ \A newHistory \in Histories :
                updateHistory(self, newHistory).exitHandlers = exitHandlers
          /\ exitHandlers > 0 => processSignal(self) = disableRawMode(self)
    /\ Pending =>
          \A data \in OverlapChunks \cup Ignored \cup { Delete } :
              After(data).exitHandlers = exitHandlers

\* C30 witness: two calls were made on a terminal and both have resolved;
\* two handlers per event are still registered.
C30_Witness ==
    /\ calls = 2
    /\ exitHandlers = 2
    /\ listeners = 0
    /\ isTTY
    /\ ~isRawMode
    /\ resolved # NoLine

====
